---- MODULE Spec2Model ----
(***************************************************************************)
(* The chore leaderboard of Todoist-Manager: fetch_points.py (one sync     *)
(* cycle: load_state, fetch_projects_maps, rollover_if_due, count_window,  *)
(* save_state) and the reader of its state document, leaderboard.py.       *)
(*                                                                         *)
(* Instants are integers: ticks since Monday 2025-10-20T00:00:00Z, SubSec  *)
(* ticks to the second.  An ISO string is modelled by the instant it       *)
(* denotes, so iso_utc (strftime with %S, which drops the fraction) is the *)
(* truncation to a whole second.                                           *)
(***************************************************************************)
EXTENDS Integers, Sequences, FiniteSets, TLC

\* ------------------------------------------------------------------ bounds
SubSec == 2        \* clock resolution: ticks per second (datetime has 10^6)
Near == 1          \* the clock visits the instants within Near ticks of the first deadline
MaxWeeks == 2      \* number of weekly deadlines the clock runs across
MaxEvents == 1     \* completion events the upstream service comes to hold
MaxCycles == 3     \* sync cycles started
MaxHours == 504    \* SpecTime: input instants cover this many hours
MaxPoints == 1     \* SpecLoad: the totals a stored document holds are 0..MaxPoints
MaxFetch == 4      \* SpecFetch: events the service holds during one fetch_completed

\* ------------------------------------------------------------ calendar
Sec == SubSec
Hour == 3600 * Sec
Day == 24 * Hour

\* America/New_York around the end of daylight saving time in 2025:
\* UTC-4 until Sunday 2025-11-02T06:00:00Z, UTC-5 from then on.
DSTEnd == 13 * Day + 6 * Hour

UtcOffset(t) == IF t < DSTEnd THEN 4 * Hour ELSE 5 * Hour

\* dt.astimezone(NY_TZ): the wall-clock reading of a UTC instant
ToLocal(t) == t - UtcOffset(t)

\* local.astimezone(timezone.utc): the zone's offset at the local wall time
\* (fold = 0: the first of two equal wall times)
FromLocal(w) == IF w + 4 * Hour < DSTEnd THEN w + 4 * Hour ELSE w + 5 * Hour

\* date.weekday(), Mon = 0 (day 0 of the model is a Monday)
Weekday(w) == (w \div Day) % 7

\* a deadline at 23:59:00
DeadlineTimeOfDay_235900 == (23 * 3600 + 59 * 60) * Sec

\* dt_time(23, 59, 59) as an offset into the day
DeadlineTimeOfDay == (23 * 3600 + 59 * 60 + 59) * Sec

parse_iso_utc(s) == s

iso_utc(dt) == (dt \div Sec) * Sec

today_midnight_et_utc(now_utc) ==
    LET now_local == ToLocal(now_utc)
        start_local == (now_local \div Day) * Day
    IN  FromLocal(start_local)

\* the deadline test with < for <=: an input on the deadline is not rolled forward
next_friday_not_rolled(now_utc) ==
    LET now_local == ToLocal(now_utc)
        days_ahead == (4 - Weekday(now_local)) % 7
        tgt_date == (now_local \div Day) + days_ahead
        tgt_local == tgt_date * Day + DeadlineTimeOfDay
        rolled == IF tgt_local < now_local THEN tgt_local + 7 * Day ELSE tgt_local
    IN  FromLocal(rolled)

next_friday_235959_utc(now_utc) ==
    LET now_local == ToLocal(now_utc)
        days_ahead == (4 - Weekday(now_local)) % 7
        tgt_date == (now_local \div Day) + days_ahead
        tgt_local == tgt_date * Day + DeadlineTimeOfDay
        rolled == IF tgt_local <= now_local THEN tgt_local + 7 * Day ELSE tgt_local
    IN  FromLocal(rolled)

\* ------------------------------------------------------------ configuration
PROJECT_NAMES == {"Julia", "Chris"}

PAGE_SIZE == 2     \* 200 in the source, scaled to the events the model holds

\* the project ids the service lists (REST v2 /projects), and one more project
name_to_id == [Julia |-> "pJ", Chris |-> "pC"]

OtherProject == "pX"

ProjectIds == {name_to_id["Julia"], name_to_id["Chris"], OtherProject}

NoProject == "none"

ZeroPoints == [Julia |-> 0, Chris |-> 0]

\* ------------------------------------------------------------ the clock
RECURSIVE DeadlineNo(_)
DeadlineNo(k) ==
    IF k = 0 THEN next_friday_235959_utc(Day)
    ELSE next_friday_235959_utc(DeadlineNo(k - 1))

\* the instants datetime.now() can return in the model: those within Near ticks
\* of the first deadline, and each later deadline
Instants == {DeadlineNo(0) + j : j \in (0 - Near)..Near}
                \cup {DeadlineNo(k) : k \in 1..(MaxWeeks - 1)}

FirstInstant == CHOOSE t \in Instants : \A u \in Instants : t <= u

NextInstant(t) ==
    LET later == {u \in Instants : u > t}
    IN  CHOOSE u \in later : \A v \in later : u <= v

\* ------------------------------------------------------------ state store
NoDoc == [points |-> ZeroPoints, previous_points |-> ZeroPoints,
          last_sync |-> 0, next_reset_utc |-> 0]

\* leaderboard.json: absent, a complete document, or the file open("w") has
\* truncated and json.dump has not yet filled
NoFile == [status |-> "absent", doc |-> NoDoc]

DocFile(d) == [status |-> "doc", doc |-> d]

TruncatedFile == [status |-> "empty", doc |-> NoDoc]

\* dict.setdefault(k, v), on a dict as a function of its keys
setdefault(d, k, v) ==
    IF k \in DOMAIN d THEN d
    ELSE [x \in DOMAIN d \cup {k} |-> IF x = k THEN v ELSE d[x]]

\* load_state that starts afresh from a document with a field missing
load_state_data_reset(data, now_utc) ==
    IF {"points", "previous_points", "last_sync", "next_reset_utc"} \subseteq DOMAIN data
          /\ PROJECT_NAMES \subseteq DOMAIN data["points"]
          /\ PROJECT_NAMES \subseteq DOMAIN data["previous_points"]
    THEN data
    ELSE [points |-> ZeroPoints,
          previous_points |-> ZeroPoints,
          last_sync |-> iso_utc(today_midnight_et_utc(now_utc)),
          next_reset_utc |-> iso_utc(next_friday_235959_utc(now_utc))]

\* load_state on the document json.load returned
load_state_data(data, now_utc) ==
    LET d1 == setdefault(data, "points", ZeroPoints)
        d2 == setdefault(d1, "previous_points", ZeroPoints)
        d3 == setdefault(d2, "last_sync", iso_utc(today_midnight_et_utc(now_utc)))
        d4 == setdefault(d3, "next_reset_utc", iso_utc(next_friday_235959_utc(now_utc)))
        fill(m) == setdefault(setdefault(m, "Julia", 0), "Chris", 0)
    IN  [d4 EXCEPT !["points"] = fill(@), !["previous_points"] = fill(@)]

load_state(file, now_utc) ==
    IF file.status = "absent"
    THEN [points |-> ZeroPoints,
          previous_points |-> ZeroPoints,
          last_sync |-> iso_utc(today_midnight_et_utc(now_utc)),
          next_reset_utc |-> iso_utc(next_friday_235959_utc(now_utc))]
    ELSE load_state_data(file.doc, now_utc)

\* ------------------------------------------------------------ completion fetcher
Min(a, b) == IF a <= b THEN a ELSE b

\* the service's answer to completed/get_all: the completed items it lists,
\* completed from `since` to `until` (both inclusive), of one project when the
\* filter is given, always in the same order
ServerList(up, since, until, project_id) ==
    SelectSeq(up, LAMBDA it : /\ it.listed
                              /\ it.completed_at >= since
                              /\ it.completed_at <= until
                              /\ (project_id = NoProject \/ it.project_id = project_id))

\* the while loop of fetch_completed; `reject` is the number of the request
\* (0, 1, ...) the service answers with a non-200 status while the project
\* filter is on, -1 when it accepts the filter throughout
\* the loop left after its first page, whatever the size of the page
fetch_pages_one_page(up, since, until, project_id, use_pid, offset, reject, items) ==
    LET rejected == use_pid /\ offset = reject * PAGE_SIZE
        use_pid2 == use_pid /\ ~rejected
        listing == ServerList(up, since, until,
                              IF use_pid2 THEN project_id ELSE NoProject)
        batch == SubSeq(listing, offset + 1, Min(offset + PAGE_SIZE, Len(listing)))
    IN  [items |-> items \o batch, use_pid |-> use_pid2,
         requests |-> <<[offset |-> offset, rejected |-> rejected, batch |-> Len(batch)]>>]

RECURSIVE fetch_pages(_, _, _, _, _, _, _, _)
fetch_pages(up, since, until, project_id, use_pid, offset, reject, items) ==
    LET rejected == use_pid /\ offset = reject * PAGE_SIZE
        use_pid2 == use_pid /\ ~rejected
        listing == ServerList(up, since, until,
                              IF use_pid2 THEN project_id ELSE NoProject)
        batch == SubSeq(listing, offset + 1, Min(offset + PAGE_SIZE, Len(listing)))
        items2 == items \o batch
        request == [offset |-> offset, rejected |-> rejected, batch |-> Len(batch)]
    IN  IF Len(batch) < PAGE_SIZE
        THEN [items |-> items2, use_pid |-> use_pid2, requests |-> <<request>>]
        ELSE LET rest == fetch_pages(up, since, until, project_id, use_pid2,
                                     offset + PAGE_SIZE, reject, items2)
             IN  [rest EXCEPT !.requests = <<request>> \o @]

\* fetch_completed that returns what the unfiltered pages held as it is
fetch_completed_unfiltered(up, since_dt, until_dt, project_id, reject) ==
    fetch_pages(up, iso_utc(since_dt), iso_utc(until_dt), project_id,
                TRUE, 0, reject, <<>>).items

fetch_completed(up, since_dt, until_dt, project_id, reject) ==
    LET r == fetch_pages(up, iso_utc(since_dt), iso_utc(until_dt), project_id,
                         TRUE, 0, reject, <<>>)
    IN  IF ~r.use_pid
        THEN SelectSeq(r.items, LAMBDA it : it.project_id = project_id)
        ELSE r.items

\* the passes of the while loop of fetch_completed: the offset asked for,
\* whether the filtered request was refused, and the size of the page
fetch_requests(up, since_dt, until_dt, project_id, reject) ==
    fetch_pages(up, iso_utc(since_dt), iso_utc(until_dt), project_id,
                TRUE, 0, reject, <<>>).requests

\* ------------------------------------------------------------ window counter
\* combined[iid] = it, the last item fetched under each id
CombinedIds(items) == {items[i].id : i \in DOMAIN items}

Combined(items, iid) ==
    LET last == CHOOSE i \in DOMAIN items :
                    /\ items[i].id = iid
                    /\ \A j \in DOMAIN items : items[j].id = iid => j <= i
    IN  items[last]

\* the window test with < for <= at its start: an event on start_dt is counted
InWindow_closed_start(it, start_dt, end_dt) ==
    ~(parse_iso_utc(it.completed_at) < start_dt \/ parse_iso_utc(it.completed_at) > end_dt)

\* the events the loop of count_window does not skip
InWindow(it, start_dt, end_dt) ==
    ~(parse_iso_utc(it.completed_at) <= start_dt \/ parse_iso_utc(it.completed_at) > end_dt)

child(it, julia_id, chris_id) ==
    IF it.project_id = julia_id THEN "Julia"
    ELSE IF it.project_id = chris_id THEN "Chris" ELSE "None"

SetMax(S, floor) == IF S = {} THEN floor ELSE
    LET m == CHOOSE x \in S : \A y \in S : y <= x IN IF m > floor THEN m ELSE floor

\* the items count_window folds into the state: both per-project fetches
WindowItems(up, start_dt, end_dt, julia_id, chris_id, rj, rc) ==
    fetch_completed(up, start_dt, end_dt, julia_id, rj)
        \o fetch_completed(up, start_dt, end_dt, chris_id, rc)

\* the ids count_window adds a point for
CountedIds(items, start_dt, end_dt, julia_id, chris_id) ==
    {iid \in CombinedIds(items) :
        /\ InWindow(Combined(items, iid), start_dt, end_dt)
        /\ child(Combined(items, iid), julia_id, chris_id) # "None"}

count_window(st, items, start_dt, end_dt, julia_id, chris_id) ==
    LET seen == {iid \in CombinedIds(items) : InWindow(Combined(items, iid), start_dt, end_dt)}
        added == [c \in PROJECT_NAMES |->
                    Cardinality({iid \in seen :
                        child(Combined(items, iid), julia_id, chris_id) = c})]
        max_seen == SetMax({parse_iso_utc(Combined(items, iid).completed_at) : iid \in seen},
                           start_dt)
    IN  [st EXCEPT !.points = [c \in PROJECT_NAMES |-> st.points[c] + added[c]],
                   !.last_sync = iso_utc(max_seen)]

\* ------------------------------------------------------------ rollover engine
\* rollover_if_due with the next deadline taken from the old one, not from now
rollover_if_due_from_boundary(st, items, now_utc, julia_id, chris_id) ==
    LET boundary == parse_iso_utc(st.next_reset_utc)
        last_sync_dt == parse_iso_utc(st.last_sync)
        closed == IF last_sync_dt < boundary
                  THEN count_window(st, items, last_sync_dt, boundary, julia_id, chris_id)
                  ELSE st
    IN  IF now_utc < boundary THEN st
        ELSE [points |-> ZeroPoints,
              previous_points |-> [Julia |-> closed.points["Julia"],
                                   Chris |-> closed.points["Chris"]],
              last_sync |-> iso_utc(boundary),
              next_reset_utc |-> iso_utc(next_friday_235959_utc(boundary))]

\* rollover_if_due without the early return of the open period
rollover_if_due_always(st, items, now_utc, julia_id, chris_id) ==
    LET boundary == parse_iso_utc(st.next_reset_utc)
        last_sync_dt == parse_iso_utc(st.last_sync)
        closed == IF last_sync_dt < boundary /\ now_utc >= boundary
                  THEN count_window(st, items, last_sync_dt, boundary, julia_id, chris_id)
                  ELSE st
    IN  [points |-> ZeroPoints,
         previous_points |-> [Julia |-> closed.points["Julia"],
                              Chris |-> closed.points["Chris"]],
         last_sync |-> iso_utc(boundary),
         next_reset_utc |-> iso_utc(next_friday_235959_utc(now_utc))]

\* rollover_if_due; items: what the fetches of the closing window returned
rollover_if_due(st, items, now_utc, julia_id, chris_id) ==
    LET boundary == parse_iso_utc(st.next_reset_utc)
        last_sync_dt == parse_iso_utc(st.last_sync)
        closed == IF last_sync_dt < boundary
                  THEN count_window(st, items, last_sync_dt, boundary, julia_id, chris_id)
                  ELSE st
    IN  IF now_utc < boundary THEN st
        ELSE [points |-> ZeroPoints,
              previous_points |-> [Julia |-> closed.points["Julia"],
                                   Chris |-> closed.points["Chris"]],
              last_sync |-> iso_utc(boundary),
              next_reset_utc |-> iso_utc(next_friday_235959_utc(now_utc))]

\* ------------------------------------------------------------ the system
VARIABLES
    clock,       \* the wall clock, as datetime.now(timezone.utc) reads it
    upstream,    \* the completion events the service holds, in listing order
    disk,        \* leaderboard.json
    state,       \* the dict main() works on
    pc,          \* where main() stands: idle, resolve, rollover, count, save, dump
    cycles,      \* cycles started
    hits,        \* per event id: increments of state["points"] it caused
    disk_hits,   \* hits, as of the document on disk
    loaded,      \* what load_state returned in this cycle
    start_disk,  \* leaderboard.json when this cycle started
    rolled,      \* this cycle took the rollover snapshot
    raised,      \* the last cycle ended in an exception
    seen_len,    \* events the service held at the first fetch of this cycle
    disk_seen,   \* seen_len of the cycle that wrote the document on disk
    init_sync,   \* last_sync the first saved cycle started from
    tin, tout,   \* SpecTime: an instant and next_friday_235959_utc of it
    arg, res     \* SpecLoad, SpecFetch: the arguments of a call and its result

vars == <<clock, upstream, disk, state, pc, cycles, hits,
          disk_hits, loaded, start_disk, rolled, raised, seen_len, disk_seen, init_sync,
          tin, tout, arg, res>>

timevars == <<tin, tout, arg, res>>

\* no call made
NoCall == [done |-> FALSE]

EventIds == 1..MaxEvents

NoHits == [e \in EventIds |-> 0]

\* the requests at which the service may refuse the project filter
Rejects == {-1, 0, 1}

Hit(h, ids) == [e \in EventIds |-> IF e \in ids THEN h[e] + 1 ELSE h[e]]

InitMain ==
    /\ clock = FirstInstant
    /\ upstream = <<>>
    /\ disk = NoFile
    /\ state = NoDoc
    /\ pc = "idle"
    /\ cycles = 0
    /\ hits = NoHits
    /\ disk_hits = NoHits
    /\ loaded = NoDoc
    /\ start_disk = NoFile
    /\ rolled = FALSE
    /\ raised = FALSE
    /\ seen_len = -1
    /\ disk_seen = -1
    /\ init_sync = -1

Init ==
    /\ InitMain
    /\ tin = 0
    /\ tout = 0
    /\ arg = NoCall
    /\ res = NoCall

\* time passes
Tick ==
    /\ pc = "count" \/ (pc = "idle" /\ cycles < MaxCycles)
    /\ \E u \in Instants : u > clock
    /\ clock' = NextInstant(clock)
    /\ UNCHANGED <<upstream, disk, state, pc, cycles, hits,
                   disk_hits, loaded, start_disk, rolled, raised, seen_len, disk_seen,
                   init_sync, timevars>>

\* a task of project p is completed: the service stamps it with the current instant
Complete(p) ==
    /\ pc = "count" \/ (pc = "idle" /\ cycles < MaxCycles)
    /\ Len(upstream) < MaxEvents
    /\ upstream' = Append(upstream, [id |-> Len(upstream) + 1, project_id |-> p,
                                     completed_at |-> clock, listed |-> TRUE])
    /\ UNCHANGED <<clock, disk, state, pc, cycles, hits,
                   disk_hits, loaded, start_disk, rolled, raised, seen_len, disk_seen,
                   init_sync, timevars>>

\* a completed task is reopened or deleted: the service lists it no longer,
\* and what it was is kept nowhere
Reopen ==
    /\ pc = "count" \/ (pc = "idle" /\ cycles < MaxCycles)
    /\ \E i \in DOMAIN upstream :
        /\ upstream[i].listed
        /\ upstream' = [upstream EXCEPT ![i] = [id |-> i, project_id |-> NoProject,
                                                completed_at |-> 0, listed |-> FALSE]]
    /\ UNCHANGED <<clock, disk, state, pc, cycles, hits,
                   disk_hits, loaded, start_disk, rolled, raised, seen_len, disk_seen,
                   init_sync, timevars>>

\* the cycle is over: main() has returned or raised, its locals are gone
EndCycle ==
    /\ pc' = "idle"
    /\ state' = NoDoc
    /\ hits' = NoHits
    /\ loaded' = NoDoc
    /\ rolled' = FALSE
    /\ seen_len' = -1

\* main: state = load_state(LEADERBOARD_PATH)
Load ==
    /\ pc = "idle"
    /\ cycles < MaxCycles
    /\ disk.status # "empty"
    /\ state' = load_state(disk, clock)
    /\ loaded' = load_state(disk, clock)
    /\ start_disk' = disk
    /\ hits' = disk_hits
    /\ pc' = "resolve"
    /\ cycles' = cycles + 1
    /\ raised' = FALSE
    /\ UNCHANGED <<clock, upstream, disk, disk_hits, rolled, seen_len,
                   disk_seen, init_sync, timevars>>

\* main: json.load raises on a file that holds no document
LoadFails ==
    /\ pc = "idle"
    /\ cycles < MaxCycles
    /\ disk.status = "empty"
    /\ cycles' = cycles + 1
    /\ start_disk' = disk
    /\ EndCycle
    /\ raised' = TRUE
    /\ UNCHANGED <<clock, upstream, disk, disk_hits, disk_seen,
                   init_sync, timevars>>

\* main: fetch_projects_maps and the check of PROJECT_NAMES
Resolve ==
    /\ pc = "resolve"
    /\ pc' = "rollover"
    /\ UNCHANGED <<clock, upstream, disk, state, cycles, hits,
                   disk_hits, loaded, start_disk, rolled, raised, seen_len, disk_seen,
                   init_sync, timevars>>

\* the project listing fails (raise_for_status), or lists a set of names
\* that lacks one of PROJECT_NAMES (RuntimeError)
ResolveFails ==
    /\ pc = "resolve"
    /\ \E listed \in (SUBSET PROJECT_NAMES) \cup {{"error"}} : listed # PROJECT_NAMES
    /\ EndCycle
    /\ raised' = TRUE
    /\ UNCHANGED <<clock, upstream, disk, cycles, disk_hits, start_disk,
                   disk_seen, init_sync, timevars>>

\* main: state = rollover_if_due(state, name_to_id)
Rollover ==
    /\ pc = "rollover"
    /\ \E rj \in Rejects, rc \in Rejects :
        LET due == clock >= parse_iso_utc(state.next_reset_utc)
            closing == due /\ parse_iso_utc(state.last_sync) < parse_iso_utc(state.next_reset_utc)
            items == IF closing
                     THEN WindowItems(upstream, parse_iso_utc(state.last_sync),
                                      parse_iso_utc(state.next_reset_utc),
                                      name_to_id["Julia"], name_to_id["Chris"], rj, rc)
                     ELSE <<>>
        IN  /\ state' = rollover_if_due(state, items, clock,
                                        name_to_id["Julia"], name_to_id["Chris"])
            /\ hits' = Hit(hits, CountedIds(items, parse_iso_utc(state.last_sync),
                                            parse_iso_utc(state.next_reset_utc),
                                            name_to_id["Julia"], name_to_id["Chris"]))
            /\ rolled' = due
            /\ seen_len' = IF closing THEN Len(upstream) ELSE seen_len
    /\ pc' = "count"
    /\ UNCHANGED <<clock, upstream, disk, cycles, raised, disk_hits,
                   loaded, start_disk, disk_seen, init_sync, timevars>>

\* a completed-items request of the closing window ends in raise_for_status
RolloverFails ==
    /\ pc = "rollover"
    /\ clock >= parse_iso_utc(state.next_reset_utc)
    /\ parse_iso_utc(state.last_sync) < parse_iso_utc(state.next_reset_utc)
    /\ EndCycle
    /\ raised' = TRUE
    /\ UNCHANGED <<clock, upstream, disk, cycles, disk_hits, start_disk,
                   disk_seen, init_sync, timevars>>

\* main: count_window(state, last_sync_dt, now_utc, ...)
Count ==
    /\ pc = "count"
    /\ \E rj \in Rejects, rc \in Rejects :
        LET last_sync_dt == parse_iso_utc(state.last_sync)
            items == WindowItems(upstream, last_sync_dt, clock,
                                 name_to_id["Julia"], name_to_id["Chris"], rj, rc)
        IN  /\ state' = count_window(state, items, last_sync_dt, clock,
                                     name_to_id["Julia"], name_to_id["Chris"])
            /\ hits' = Hit(hits, CountedIds(items, last_sync_dt, clock,
                                            name_to_id["Julia"], name_to_id["Chris"]))
    /\ seen_len' = IF seen_len = -1 THEN Len(upstream) ELSE seen_len
    /\ pc' = "save"
    /\ UNCHANGED <<clock, upstream, disk, cycles, raised, disk_hits,
                   loaded, start_disk, rolled, disk_seen, init_sync, timevars>>

\* the failing count with the state written out on the way (a finally: save_state)
CountFails_saving ==
    /\ pc = "count"
    /\ EndCycle
    /\ raised' = TRUE
    /\ disk' = DocFile(state)
    /\ UNCHANGED <<clock, upstream, cycles, disk_hits, start_disk,
                   disk_seen, init_sync, timevars>>

\* a completed-items request of the current window ends in raise_for_status
CountFails ==
    /\ pc = "count"
    /\ EndCycle
    /\ raised' = TRUE
    /\ UNCHANGED <<clock, upstream, disk, cycles, disk_hits, start_disk,
                   disk_seen, init_sync, timevars>>

\* save_state: open(path, "w") truncates the file
SaveOpen ==
    /\ pc = "save"
    /\ disk' = TruncatedFile
    /\ pc' = "dump"
    /\ UNCHANGED <<clock, upstream, state, cycles, hits,
                   disk_hits, loaded, start_disk, rolled, raised, seen_len, disk_seen,
                   init_sync, timevars>>

\* save_state: json.dump and the close of the file
SaveDump ==
    /\ pc = "dump"
    /\ disk' = DocFile(state)
    /\ disk_hits' = hits
    /\ disk_seen' = seen_len
    /\ init_sync' = IF init_sync = -1 THEN loaded.last_sync ELSE init_sync
    /\ EndCycle
    /\ raised' = FALSE
    /\ UNCHANGED <<clock, upstream, cycles, start_disk, timevars>>

\* the process dies between the open and the close
Crash ==
    /\ pc = "dump"
    /\ EndCycle
    /\ raised' = FALSE
    /\ UNCHANGED <<clock, upstream, disk, cycles, disk_hits, start_disk,
                   disk_seen, init_sync, timevars>>

\* leaderboard.py main, reading leaderboard.json at any moment: the placeholder
\* page, the page of the document, or json.loads raises
leaderboard_main(file) ==
    IF file.status = "absent" THEN "placeholder"
    ELSE IF file.status = "doc" THEN "page" ELSE "error"

Next ==
    \/ Tick
    \/ \E p \in ProjectIds : Complete(p)
    \/ Reopen
    \/ Load
    \/ LoadFails
    \/ Resolve
    \/ ResolveFails
    \/ Rollover
    \/ RolloverFails
    \/ Count
    \/ CountFails
    \/ SaveOpen
    \/ SaveDump
    \/ Crash

Spec == Init /\ [][Next]_vars

\* ------------------------------------------------------------ SpecTime
\* next_friday_235959_utc on its own: every hour of MaxHours hours from
\* Tuesday 2025-10-21T00:00:00Z, and the instants from a second before it to a
\* second after it
TimeInputs == {Day + h * Hour + j : h \in 0..MaxHours, j \in (0 - Sec - 1)..Sec}

InitTime ==
    /\ InitMain
    /\ tin \in TimeInputs
    /\ tout = -1
    /\ arg = NoCall
    /\ res = NoCall

ApplyTime ==
    /\ tout = -1
    /\ tout' = next_friday_235959_utc(tin)
    /\ UNCHANGED <<clock, upstream, disk, state, pc, cycles, hits, disk_hits,
                   loaded, start_disk, rolled, raised, seen_len, disk_seen, init_sync,
                   tin, arg, res>>

SpecTime == InitTime /\ [][ApplyTime]_vars

\* the instant is a weekly deadline: Friday 23:59:59 on the local wall clock
OnDeadline(t) == Weekday(ToLocal(t)) = 4 /\ ToLocal(t) % Day = DeadlineTimeOfDay

\* C9 as stated: the next deadline is strictly after the input, at most 7 days
\* after it, on Friday 23:59:59 local, and one week after an input that is
\* itself a deadline
C9_AsStated ==
    tout # -1 =>
        /\ tin < tout
        /\ tout - tin <= 7 * Day
        /\ OnDeadline(tout)
        /\ (OnDeadline(tin) => ToLocal(tout) = ToLocal(tin) + 7 * Day)

\* C9 amended: the next deadline is strictly after the input, on Friday
\* 23:59:59 local, at most 7 days of local wall-clock time after it, which is
\* at most 7 days and one hour of elapsed time (the week daylight saving time
\* ends has 169 hours); an input that is itself a deadline yields the deadline
\* one local week later
C9_NextDeadline ==
    tout # -1 =>
        /\ tin < tout
        /\ ToLocal(tout) - ToLocal(tin) <= 7 * Day
        /\ tout - tin <= 7 * Day + Hour
        /\ OnDeadline(tout)
        /\ (OnDeadline(tin) => ToLocal(tout) = ToLocal(tin) + 7 * Day)

\* an input exactly on the deadline before daylight saving time ends, rolled
\* forward to the deadline 7 days and one hour later
C9_Witness ==
    /\ tout # -1
    /\ OnDeadline(tin)
    /\ tout - tin = 7 * Day + Hour

\* the input is Saturday 00:00:01 on the local wall clock, and the zone's
\* offset is the same at the input and at the computed deadline
SaturdayStart(t) == Weekday(ToLocal(t)) = 5 /\ ToLocal(t) % Day = Sec

C11_Case == tout # -1 /\ SaturdayStart(tin) /\ UtcOffset(tin) = UtcOffset(tout)

\* C11 as stated: from Saturday 00:00:01 local, with no daylight-saving change
\* in between, the next deadline is 6 days 23 hours 58 minutes 59 seconds later
C11_AsStated ==
    C11_Case => tout - tin = 6 * Day + 23 * Hour + (58 * 60 + 59) * Sec

\* C11 amended: the deadline is Friday 23:59:59 local, so from Saturday 00:00:01
\* local, with no daylight-saving change in between, the next deadline is 6 days
\* 23 hours 59 minutes 58 seconds later
C11_BoundaryValue ==
    C11_Case => /\ tout - tin = 6 * Day + 23 * Hour + (59 * 60 + 58) * Sec
                /\ OnDeadline(tout)

\* the deadline of a Saturday 00:00:01 input has been computed, daylight saving
\* time unchanged in between
C11_Witness == C11_Case

\* ------------------------------------------------------------ SpecLoad
\* load_state on its own, on an existing document with any of its fields, and
\* any participant inside its totals maps, missing
Fields == {"points", "previous_points", "last_sync", "next_reset_utc"}

PartialTotals == UNION {[S -> 0..MaxPoints] : S \in SUBSET PROJECT_NAMES}

\* stored instants: whole seconds, as iso_utc writes them
StoredInstants == {DeadlineNo(0) - Sec, DeadlineNo(0)}

PartialDoc(F, p, q, l, n) ==
    [f \in F |-> CASE f = "points" -> p
                   [] f = "previous_points" -> q
                   [] f = "last_sync" -> l
                   [] OTHER -> n]

LoadInputs ==
    {[data |-> PartialDoc(F, p, q, l, n), now |-> t] :
        F \in SUBSET Fields, p \in PartialTotals, q \in PartialTotals,
        l \in StoredInstants, n \in StoredInstants, t \in Instants}

InitLoad ==
    /\ InitMain
    /\ tin = 0
    /\ tout = 0
    /\ arg \in LoadInputs
    /\ res = NoCall

ApplyLoad ==
    /\ ~res.done
    /\ res' = [done |-> TRUE, value |-> load_state_data(arg.data, arg.now)]
    /\ UNCHANGED <<clock, upstream, disk, state, pc, cycles, hits, disk_hits,
                   loaded, start_disk, rolled, raised, seen_len, disk_seen, init_sync,
                   tin, tout, arg>>

SpecLoad == InitLoad /\ [][ApplyLoad]_vars

\* C13: load_state returns a document with the four fields; a field the stored
\* document has comes back with its stored value, a totals map with its stored
\* entries and 0 for each participant it lacks; a missing totals map comes back
\* all zero, a missing last_sync as the start of the current local day, a
\* missing next_reset_utc as the next weekly deadline
C13_SchemaTolerantLoad ==
    res.done =>
        LET d == arg.data
            r == res.value
        IN  /\ DOMAIN r = Fields
            /\ \A m \in {"points", "previous_points"} :
                /\ PROJECT_NAMES \subseteq DOMAIN r[m]
                /\ IF m \in DOMAIN d
                   THEN /\ DOMAIN r[m] = DOMAIN d[m] \cup PROJECT_NAMES
                        /\ \A k \in DOMAIN r[m] :
                            r[m][k] = IF k \in DOMAIN d[m] THEN d[m][k] ELSE 0
                   ELSE r[m] = ZeroPoints
            /\ r["last_sync"] = IF "last_sync" \in DOMAIN d THEN d["last_sync"]
                                ELSE iso_utc(today_midnight_et_utc(arg.now))
            /\ r["next_reset_utc"] = IF "next_reset_utc" \in DOMAIN d THEN d["next_reset_utc"]
                                     ELSE iso_utc(next_friday_235959_utc(arg.now))

\* a document with Julia's points only, no last_sync and a stored
\* next_reset_utc has been loaded: Chris and last_sync filled in, the rest kept
C13_Witness ==
    /\ res.done
    /\ DOMAIN arg.data = {"points", "next_reset_utc"}
    /\ DOMAIN arg.data["points"] = {"Julia"}
    /\ arg.data["points"]["Julia"] = MaxPoints
    /\ res.value["points"] = [Julia |-> MaxPoints, Chris |-> 0]
    /\ res.value["next_reset_utc"] = arg.data["next_reset_utc"]

\* ------------------------------------------------------------ SpecFetch
\* fetch_completed on its own, for Julia's project, against a service that
\* holds a fixed list of events: of any project, completed inside the window
\* asked for or before it
FetchSince == DeadlineNo(0) - Sec

FetchUntil == DeadlineNo(0)

FetchStamps == {FetchSince - 1, FetchUntil}

UpstreamOf(f) ==
    [i \in DOMAIN f |-> [id |-> i, project_id |-> f[i][1], completed_at |-> f[i][2],
                         listed |-> TRUE]]

FetchInputs ==
    {[up |-> UpstreamOf(f), since |-> FetchSince, until |-> FetchUntil,
      project_id |-> name_to_id["Julia"], reject |-> k] :
        f \in UNION {[1..n -> ProjectIds \X FetchStamps] : n \in 0..MaxFetch},
        k \in -1..(MaxFetch \div PAGE_SIZE)}

InitFetch ==
    /\ InitMain
    /\ tin = 0
    /\ tout = 0
    /\ arg \in FetchInputs
    /\ res = NoCall

ApplyFetch ==
    /\ ~res.done
    /\ res' = [done |-> TRUE,
               value |-> fetch_completed(arg.up, arg.since, arg.until,
                                         arg.project_id, arg.reject),
               requests |-> fetch_requests(arg.up, arg.since, arg.until,
                                           arg.project_id, arg.reject)]
    /\ UNCHANGED <<clock, upstream, disk, state, pc, cycles, hits, disk_hits,
                   loaded, start_disk, rolled, raised, seen_len, disk_seen, init_sync,
                   tin, tout, arg>>

SpecFetch == InitFetch /\ [][ApplyFetch]_vars

\* the events of the project asked for that the service lists for the window
Matching == ServerList(arg.up, iso_utc(arg.since), iso_utc(arg.until), arg.project_id)

IdsOf(items) == {items[i].id : i \in DOMAIN items}

\* C16: whether the service accepts the project filter throughout or refuses
\* it at the first or at a later request, fetch_completed returns a list: its
\* items are all of the project asked for, and their ids are exactly the ids of
\* the events of that project the service lists for the window; after a
\* refusal the same offset is asked for again and every later request is
\* unfiltered (no second refusal)
C16_FilterFallback ==
    res.done =>
        /\ IdsOf(res.value) = IdsOf(Matching)
        /\ \A i \in DOMAIN res.value : res.value[i].project_id = arg.project_id
        /\ \A i \in DOMAIN res.requests, j \in DOMAIN res.requests :
            (res.requests[i].rejected /\ res.requests[j].rejected) => i = j

\* the filter was refused at the second request, the unfiltered pages held
\* events of another project and an event of the project asked for that the
\* first page had not brought
C16_Witness ==
    /\ res.done
    /\ Len(res.requests) >= 2
    /\ res.requests[2].rejected
    /\ Len(Matching) > PAGE_SIZE
    /\ \E i \in DOMAIN arg.up :
        /\ arg.up[i].project_id # arg.project_id
        /\ arg.up[i].completed_at = FetchUntil

\* C17: with the filter accepted throughout and N matching events, the
\* requests are those at offsets 0, PAGE_SIZE, ... up to the first page shorter
\* than PAGE_SIZE: N \div PAGE_SIZE full pages and one more page with the
\* N % PAGE_SIZE events that remain (none, when N is a multiple of PAGE_SIZE);
\* the list returned is the N events
C17_Pagination ==
    (res.done /\ arg.reject = -1) =>
        LET N == Len(Matching)
        IN  /\ Len(res.requests) = (N \div PAGE_SIZE) + 1
            /\ \A i \in DOMAIN res.requests :
                /\ res.requests[i].offset = (i - 1) * PAGE_SIZE
                /\ res.requests[i].batch =
                      IF i < Len(res.requests) THEN PAGE_SIZE ELSE N % PAGE_SIZE
            /\ res.value = Matching

\* two full pages and the empty page after them have been fetched
C17_Witness ==
    /\ res.done
    /\ arg.reject = -1
    /\ Len(Matching) = 2 * PAGE_SIZE
    /\ Len(res.requests) = 3
    /\ res.requests[3].batch = 0
    /\ Len(res.value) = 2 * PAGE_SIZE

\* ------------------------------------------------------------ the sync cycle
\* the service lists the event under a participant's project
Tracked(it) == it.listed /\ child(it, name_to_id["Julia"], name_to_id["Chris"]) # "None"

\* C1: in every document on disk, no event has caused more than one
\* increment of points, over all the cycles that led to the document
C1_NoDoubleCount ==
    \A e \in EventIds : disk_hits[e] <= 1

\* C2: the last_sync a cycle is about to persist is not before the last_sync
\* load_state gave it
C2_MonotonicWatermark ==
    pc \in {"save", "dump"} =>
        parse_iso_utc(state.last_sync) >= parse_iso_utc(loaded.last_sync)

\* C3: in every document on disk, every event of a tracked project that the
\* service already held when the cycle that wrote the document made its first
\* fetch, completed after the initial watermark and at or before last_sync,
\* has been counted (that it is counted at most once is C1)
C3_NoDroppedEvents ==
    disk.status = "doc" =>
        \A i \in DOMAIN upstream :
            (/\ i <= disk_seen
             /\ Tracked(upstream[i])
             /\ upstream[i].completed_at > init_sync
             /\ upstream[i].completed_at <= parse_iso_utc(disk.doc.last_sync))
                => disk_hits[upstream[i].id] >= 1

\* C12: after the count up to now the state holds a tie_break_ids field: the
\* ids of the listed events completed exactly at the new last_sync
C12_TieBreakSet ==
    pc = "save" =>
        /\ "tie_break_ids" \in DOMAIN state
        /\ state["tie_break_ids"] =
              {upstream[i].id : i \in {j \in DOMAIN upstream :
                  /\ Tracked(upstream[j])
                  /\ upstream[j].completed_at = parse_iso_utc(state.last_sync)}}

\* C14: in every document on disk last_sync is not after next_reset_utc, and
\* no listed event completed after next_reset_utc has been counted
C14_PeriodBoundary ==
    disk.status = "doc" =>
        /\ parse_iso_utc(disk.doc.last_sync) <= parse_iso_utc(disk.doc.next_reset_utc)
        /\ \A i \in DOMAIN upstream :
            (Tracked(upstream[i])
                /\ upstream[i].completed_at > parse_iso_utc(disk.doc.next_reset_utc))
                    => disk_hits[upstream[i].id] = 0

\* the events of participant c the service holds, completed in (lo, hi]
EventsOf(c, lo, hi) ==
    {i \in DOMAIN upstream :
        /\ upstream[i].listed
        /\ child(upstream[i], name_to_id["Julia"], name_to_id["Chris"]) = c
        /\ upstream[i].completed_at > lo
        /\ upstream[i].completed_at <= hi}

\* the step of main that runs rollover_if_due, and the one that counts up to now
RolloverStep == pc = "rollover" /\ pc' = "count"

CountStep == pc = "count" /\ pc' = "save"

\* the cycle closes a period: now >= next_reset_utc and last_sync < next_reset_utc
Closing(st, now) ==
    /\ now >= parse_iso_utc(st.next_reset_utc)
    /\ parse_iso_utc(st.last_sync) < parse_iso_utc(st.next_reset_utc)

\* C15: after the count up to now, last_sync is at or after the completion
\* instant of every event the count added a point for
C15_WatermarkCoversCounted ==
    [][CountStep =>
        \A i \in DOMAIN upstream :
            hits'[upstream[i].id] > hits[upstream[i].id]
                => parse_iso_utc(state'.last_sync) >= upstream[i].completed_at]_vars

\* C4, first half: the rollover of a closing cycle adds every tracked event
\* completed in (last_sync, next_reset_utc] to previous_points, none to points
C4_ClosingPeriod ==
    (RolloverStep /\ Closing(state, clock)) =>
        \A c \in PROJECT_NAMES :
            /\ state'.previous_points[c] = state.points[c]
                 + Cardinality(EventsOf(c, parse_iso_utc(state.last_sync),
                                           parse_iso_utc(state.next_reset_utc)))
            /\ state'.points[c] = 0

\* C4, second half, for a window that ends at `end`: the count after the
\* rollover adds every tracked event completed in (next_reset_utc, end] to the
\* new points, none to previous_points
C4_NewPeriod(end) ==
    (CountStep /\ rolled /\ Closing(loaded, clock)) =>
        /\ parse_iso_utc(state.last_sync) = parse_iso_utc(loaded.next_reset_utc)
        /\ state'.previous_points = state.previous_points
        /\ \A c \in PROJECT_NAMES :
            state'.points[c] = Cardinality(EventsOf(c, parse_iso_utc(loaded.next_reset_utc), end))

C4_WitnessNewPeriod ==
    /\ pc = "save"
    /\ rolled
    /\ parse_iso_utc(loaded.last_sync) < parse_iso_utc(loaded.next_reset_utc)
    /\ \E j \in DOMAIN upstream :
        /\ Tracked(upstream[j])
        /\ upstream[j].completed_at > parse_iso_utc(loaded.next_reset_utc)
        /\ state.points[child(upstream[j], name_to_id["Julia"], name_to_id["Chris"])] = 1
        /\ state.previous_points[child(upstream[j], name_to_id["Julia"], name_to_id["Chris"])] = 0

\* C5: a cycle that crosses no deadline and finds the service holding no event
\* beyond those the cycle that wrote the document found is about to persist
\* the points, previous_points and last_sync it loaded
C5_Idempotence ==
    (/\ pc = "save"
     /\ start_disk.status = "doc"
     /\ ~rolled
     /\ Len(upstream) = disk_seen) =>
        /\ state.points = start_disk.doc.points
        /\ state.previous_points = start_disk.doc.previous_points
        /\ state.last_sync = start_disk.doc.last_sync

\* C6: after a cycle that ended in an exception, leaderboard.json is what it
\* was when the cycle started
C6_FailedCycleKeepsDocument ==
    raised => disk = start_disk

\* a cycle with a document on disk has failed after its rollover
C6_Witness ==
    /\ raised
    /\ pc = "idle"
    /\ disk.status = "doc"
    /\ clock >= parse_iso_utc(disk.doc.next_reset_utc)

\* C7: leaderboard.json always holds the complete previous document (or is
\* still absent) or the complete new one, and the page renderer can read it
C7_AtomicSave ==
    /\ pc = "dump" => (disk = start_disk \/ disk = DocFile(state))
    /\ leaderboard_main(disk) # "error"

\* C8: the count up to now adds to each participant's points the number of
\* events of the participant completed in (start, end], and sets last_sync to
\* the latest completion instant among the fetched events in the window, or
\* to start when there is none
C8_WindowResult ==
    [][CountStep =>
        LET start == parse_iso_utc(state.last_sync)
            fetched == {i \in DOMAIN upstream :
                          /\ Tracked(upstream[i])
                          /\ upstream[i].completed_at >= iso_utc(start)
                          /\ upstream[i].completed_at <= iso_utc(clock)}
            window == {i \in fetched : /\ upstream[i].completed_at > start
                                       /\ upstream[i].completed_at <= clock}
        IN  /\ \A c \in PROJECT_NAMES :
                state'.points[c] = state.points[c]
                    + Cardinality(window \cap EventsOf(c, start, clock))
            /\ parse_iso_utc(state'.last_sync)
                 = SetMax({upstream[i].completed_at : i \in window}, start)]_vars

\* C18: an event of a project that is neither participant's, completed in the
\* window of the count up to now, adds to nobody's points and takes part in
\* the maximum that becomes last_sync (written with whole seconds): last_sync
\* is the latest completion second among the listed events of any project in
\* the window, or the start when there is none
C18_UnrecognizedBucket ==
    [][CountStep =>
        LET start == parse_iso_utc(state.last_sync)
            window == {i \in DOMAIN upstream : /\ upstream[i].listed
                                               /\ upstream[i].completed_at > start
                                               /\ upstream[i].completed_at <= iso_utc(clock)}
        IN  /\ \A i \in window :
                ~Tracked(upstream[i]) => hits'[upstream[i].id] = hits[upstream[i].id]
            /\ parse_iso_utc(state'.last_sync)
                 = iso_utc(SetMax({upstream[i].completed_at : i \in window}, start))]_vars

\* C19: from the rollover step of a cycle that runs before next_reset_utc the
\* only step is the one that leaves points, previous_points, last_sync and
\* next_reset_utc as they were and fetches nothing: nothing counted, no
\* request that can fail
C19_OpenNoOp ==
    [][(pc = "rollover" /\ clock < parse_iso_utc(state.next_reset_utc)) =>
        /\ pc' = "count"
        /\ state' = state
        /\ hits' = hits
        /\ seen_len' = seen_len
        /\ ~rolled'
        /\ ~raised']_vars

\* a cycle that loaded a document with points in it has passed rollover_if_due
\* before the deadline, with the document as it was loaded
C19_Witness ==
    /\ pc = "count"
    /\ ~rolled
    /\ clock < parse_iso_utc(state.next_reset_utc)
    /\ start_disk.status = "doc"
    /\ loaded.points # ZeroPoints
    /\ state = loaded

\* C10: a rollover step taken at or after the deadline, however late, makes
\* previous_points the points with the closing window counted, zeroes
\* points, sets last_sync to the old deadline and next_reset_utc to an instant
\* after now; taken before the deadline it changes nothing
C10_OneRollover ==
    [][RolloverStep =>
        IF clock >= parse_iso_utc(state.next_reset_utc)
        THEN /\ rolled'
             /\ \A c \in PROJECT_NAMES :
                  /\ state'.points[c] = 0
                  /\ state'.previous_points[c] = state.points[c]
                        + (IF Closing(state, clock)
                           THEN Cardinality(EventsOf(c, parse_iso_utc(state.last_sync),
                                                     parse_iso_utc(state.next_reset_utc)))
                           ELSE 0)
             /\ parse_iso_utc(state'.last_sync) = parse_iso_utc(state.next_reset_utc)
             /\ parse_iso_utc(state'.next_reset_utc) > clock
        ELSE /\ ~rolled'
             /\ state' = state]_vars

\* a cycle that missed the deadline by a whole period or more (the deadline
\* after it has passed too) has rolled over once, with points to snapshot
C10_Witness ==
    /\ pc = "count"
    /\ rolled
    /\ clock >= next_friday_235959_utc(parse_iso_utc(loaded.next_reset_utc))
    /\ state.previous_points # ZeroPoints
    /\ parse_iso_utc(state.next_reset_utc) > clock

\* a cycle run after a rollover and before the new deadline has not rolled over
C10_WitnessFollowing ==
    /\ pc = "count"
    /\ ~rolled
    /\ loaded.previous_points # ZeroPoints
    /\ clock < parse_iso_utc(loaded.next_reset_utc)

====
